---- MODULE Spec2Model ----
(***************************************************************************)
(* StatsComponentBase (src/src/components/stats-base.ts): the frame        *)
(* counter that averages FPS or frame time over a window of updateRateMs   *)
(* and pushes one sample per window to a StatsGraph.                       *)
(*                                                                         *)
(* Time.  performance.now() returns fractional milliseconds.  Timestamps   *)
(* and durations are integers counting clock units, UnitsPerMs units to    *)
(* the millisecond, so 16.6 ms is 166 units and updateRateMs = 500 is      *)
(* 5000 units.  The clock is monotonic and may stand still between two     *)
(* reads (its resolution is finite).                                       *)
(*                                                                         *)
(* Numbers.  _value is a JavaScript number.  The values the component can  *)
(* compute are quotients of non-negative integers: they are modelled as    *)
(* exact fractions in lowest terms, plus Infinity and NaN for x/0 and 0/0, *)
(* as IEEE-754 division gives them.  Rounding of the binary representation *)
(* is not modelled.                                                        *)
(***************************************************************************)
EXTENDS Integers, Sequences, TLC

VARIABLES
    statsType,      \* property statsType (line 32)
    updateRateMs,   \* property updateRateMs (line 40), in clock units
    stats,          \* the StatsGraph: samples received, the latest one and when
    _value,         \* last computed value (line 52)
    _text,          \* last computed text (line 55)
    _startTime,     \* timestamp of the start of the window (line 58)
    _frame,         \* frames counted in the window (line 61)
    onPostRender,   \* TRUE iff _onPostRender is a listener of scene.onPostRender
    active,         \* the engine's view: is the component active
    now,            \* performance.now(), in clock units
    last            \* the last thing the host did and how the component answered

vars == <<statsType, updateRateMs, stats, _value, _text, _startTime, _frame,
          onPostRender, active, now, last>>

(***************************************************************************)
(* Bounds of the model.                                                    *)
(***************************************************************************)
MaxTime == 5
MaxFrame == 3
MaxSamples == 2
MaxRate == 2
FramesHorizon == 10300
ScenarioHorizon == 11000
RetryHorizon == 8
RetryFrames == 6

(***************************************************************************)
(* Program constants.                                                      *)
(***************************************************************************)
Fps == 0
Milliseconds == 1
DefaultUpdateRateMs == 500
MsPerSecond == 1000
UnitsPerMs == 10

\* statsType is a plain number: the two enum members and one value outside.
StatsTypes == {Fps, Milliseconds, Milliseconds + 1}

\* updateRateMs is an unconstrained float: negative, zero, small positive
\* values and the default.
Rates == (-1 .. MaxRate) \cup {DefaultUpdateRateMs * UnitsPerMs}

(***************************************************************************)
(* JavaScript numbers.                                                     *)
(***************************************************************************)
RECURSIVE GCD(_, _)
GCD(a, b) == IF b = 0 THEN a ELSE GCD(b, a % b)

Infinity == [k |-> "inf", n |-> 1, d |-> 0]
NaN == [k |-> "nan", n |-> 0, d |-> 0]
Zero == [k |-> "fin", n |-> 0, d |-> 1]

\* a / b for integers a >= 0, b >= 0, as the JavaScript operator / gives it
Quot(a, b) ==
    IF b = 0
    THEN IF a = 0 THEN NaN ELSE Infinity
    ELSE LET g == GCD(a, b) IN [k |-> "fin", n |-> a \div g, d |-> b \div g]

IsFinite(x) == x.k = "fin"

\* Number.prototype.toFixed(1): the nearest multiple of 1/10, the larger one
\* of two equally near; "Infinity" and "NaN" for the non-finite values.
toFixed1(x) ==
    IF x.k = "inf" THEN "Infinity"
    ELSE IF x.k = "nan" THEN "NaN"
    ELSE LET t == (20 * x.n + x.d) \div (2 * x.d)
         IN  ToString(t \div 10) \o "." \o ToString(t % 10)

\* Variant of FpsValue: the factor 0.001 forgotten (frames per millisecond).
FpsValue_perMs(frame, elapsed) == Quot(frame * UnitsPerMs, elapsed)

\* line 109: this._frame / (elapsedMs * 0.001)
FpsValue(frame, elapsed) == Quot(frame * MsPerSecond * UnitsPerMs, elapsed)

\* Variant of MsValue: the operands swapped (frames per millisecond).
MsValue_swapped(elapsed, frame) == Quot(frame * UnitsPerMs, elapsed)

\* line 113: elapsedMs / this._frame
MsValue(elapsed, frame) == Quot(elapsed, frame * UnitsPerMs)

(***************************************************************************)
(* Construction (field initialisers, lines 32-61).                         *)
(***************************************************************************)
Init ==
    /\ statsType = Fps
    /\ updateRateMs = DefaultUpdateRateMs * UnitsPerMs
    /\ stats = [n |-> 0, sample |-> Zero, at |-> 0]
    /\ _value = Zero
    /\ _text = ""
    /\ _startTime = 0
    /\ _frame = 0
    /\ onPostRender = FALSE
    /\ active = FALSE
    /\ now = 0
    /\ last = "new"

(***************************************************************************)
(* reset(), lines 83-87, called at clock reading t.                        *)
(***************************************************************************)
\* Variant of ResetAt: the frame counter is not cleared.
ResetAt_keepFrame(t) ==
    /\ _startTime' = t
    /\ _frame' = _frame

\* Variant of ResetAt: _startTime holds the end of the window (a deadline)
\* instead of its start.
ResetAt_deadline(t) ==
    /\ _startTime' = t + updateRateMs
    /\ _frame' = 0

ResetAt(t) ==
    /\ _startTime' = t
    /\ _frame' = 0

reset ==
    /\ ResetAt(now)
    /\ last' = "reset"
    /\ UNCHANGED <<statsType, updateRateMs, stats, _value, _text,
                   onPostRender, active, now>>

(***************************************************************************)
(* onActivate(), lines 69-72 and onDeactivate(), lines 75-77.  The engine  *)
(* calls onActivate on an inactive component and onDeactivate on an active *)
(* one.                                                                    *)
(***************************************************************************)
\* Variant of Activate: the listener is added without the reset() of line 70.
Activate_noReset ==
    /\ onPostRender' = TRUE
    /\ UNCHANGED <<_startTime, _frame>>

Activate ==
    /\ ResetAt(now)
    /\ onPostRender' = TRUE

onActivate ==
    /\ ~active
    /\ active' = TRUE
    /\ Activate
    /\ last' = "onActivate"
    /\ UNCHANGED <<statsType, updateRateMs, stats, _value, _text, now>>

\* Variant of Deactivate: the listener is not removed.
Deactivate_keep ==
    onPostRender' = onPostRender

Deactivate ==
    onPostRender' = FALSE

onDeactivate ==
    /\ active
    /\ active' = FALSE
    /\ Deactivate
    /\ last' = "onDeactivate"
    /\ UNCHANGED <<statsType, updateRateMs, stats, _value, _text,
                   _startTime, _frame, now>>

(***************************************************************************)
(* _update(), lines 101-124, called at clock reading t.  It leaves the     *)
(* clock and the listener registration to its caller.                      *)
(***************************************************************************)
\* Variant of Flush: stats.update is called before the new value is stored,
\* so the graph receives the previous value.
Flush_staleSample(value, text, t) ==
    /\ _value' = value
    /\ _text' = text
    /\ stats' = [n |-> stats.n + 1, sample |-> _value, at |-> t]
    /\ ResetAt(t)
    /\ last' = "flush"

Flush(value, text, t) ==
    /\ _value' = value
    /\ _text' = text
    /\ stats' = [n |-> stats.n + 1, sample |-> value, at |-> t]
    /\ ResetAt(t)
    /\ last' = "flush"

\* Variant of _update: the early return of line 105 is missing.
_update_noReturn(t) ==
    LET frame == _frame + 1
        elapsedMs == t - _startTime
    IN  IF statsType = Fps
        THEN LET v == FpsValue(frame, elapsedMs)
             IN  Flush(v, "FPS: " \o toFixed1(v), t)
        ELSE IF statsType = Milliseconds
        THEN LET v == MsValue(elapsedMs, frame)
             IN  Flush(v, toFixed1(v) \o " milliseconds", t)
        ELSE /\ _frame' = frame
             /\ last' = "throw"
             /\ UNCHANGED <<stats, _value, _text, _startTime>>

\* Variant of _update: the reset() of line 123 is missing.
_update_noReset(t) ==
    LET frame == _frame + 1
        elapsedMs == t - _startTime
        v == IF statsType = Fps THEN FpsValue(frame, elapsedMs)
                                ELSE MsValue(elapsedMs, frame)
        text == IF statsType = Fps THEN "FPS: " \o toFixed1(v)
                                   ELSE toFixed1(v) \o " milliseconds"
    IN  IF elapsedMs < updateRateMs
        THEN /\ _frame' = frame
             /\ last' = "skip"
             /\ UNCHANGED <<stats, _value, _text, _startTime>>
        ELSE IF statsType \in {Fps, Milliseconds}
        THEN /\ _value' = v
             /\ _text' = text
             /\ stats' = [n |-> stats.n + 1, sample |-> v, at |-> t]
             /\ _frame' = frame
             /\ last' = "flush"
             /\ UNCHANGED _startTime
        ELSE /\ _frame' = frame
             /\ last' = "throw"
             /\ UNCHANGED <<stats, _value, _text, _startTime>>

\* Variant of _update: no default case, an unknown statsType is handled as
\* Milliseconds.
_update_noDefault(t) ==
    LET frame == _frame + 1
        elapsedMs == t - _startTime
    IN  IF elapsedMs < updateRateMs
        THEN /\ _frame' = frame
             /\ last' = "skip"
             /\ UNCHANGED <<stats, _value, _text, _startTime>>
        ELSE IF statsType = Fps
        THEN LET v == FpsValue(frame, elapsedMs)
             IN  Flush(v, "FPS: " \o toFixed1(v), t)
        ELSE LET v == MsValue(elapsedMs, frame)
             IN  Flush(v, toFixed1(v) \o " milliseconds", t)

\* Variant of _update: the frame is counted after the flush instead of
\* before the interval test, so the flushing frame is not in the average.
_update_countLate(t) ==
    LET frame == _frame
        elapsedMs == t - _startTime
    IN  IF elapsedMs < updateRateMs
        THEN /\ _frame' = frame + 1
             /\ last' = "skip"
             /\ UNCHANGED <<stats, _value, _text, _startTime>>
        ELSE IF statsType = Fps
        THEN LET v == FpsValue(frame, elapsedMs)
             IN  Flush(v, "FPS: " \o toFixed1(v), t)
        ELSE IF statsType = Milliseconds
        THEN LET v == MsValue(elapsedMs, frame)
             IN  Flush(v, toFixed1(v) \o " milliseconds", t)
        ELSE /\ _frame' = frame + 1
             /\ last' = "throw"
             /\ UNCHANGED <<stats, _value, _text, _startTime>>

\* Variant of _update: the value and the text are computed on every tick,
\* before the interval test; only the graph waits for the interval.
_update_eagerValue(t) ==
    LET frame == _frame + 1
        elapsedMs == t - _startTime
        v == IF statsType = Fps THEN FpsValue(frame, elapsedMs)
                                ELSE MsValue(elapsedMs, frame)
        text == IF statsType = Fps THEN "FPS: " \o toFixed1(v)
                                   ELSE toFixed1(v) \o " milliseconds"
    IN  IF statsType \notin {Fps, Milliseconds}
        THEN /\ _frame' = frame
             /\ last' = "throw"
             /\ UNCHANGED <<stats, _value, _text, _startTime>>
        ELSE IF elapsedMs < updateRateMs
        THEN /\ _frame' = frame
             /\ _value' = v
             /\ _text' = text
             /\ last' = "skip"
             /\ UNCHANGED <<stats, _startTime>>
        ELSE Flush(v, text, t)

\* Variant of _update: a tick below the interval restarts the window.
_update_restartOnSkip(t) ==
    LET frame == _frame + 1
        elapsedMs == t - _startTime
    IN  IF elapsedMs < updateRateMs
        THEN /\ _frame' = frame
             /\ _startTime' = t
             /\ last' = "skip"
             /\ UNCHANGED <<stats, _value, _text>>
        ELSE IF statsType = Fps
        THEN LET v == FpsValue(frame, elapsedMs)
             IN  Flush(v, "FPS: " \o toFixed1(v), t)
        ELSE IF statsType = Milliseconds
        THEN LET v == MsValue(elapsedMs, frame)
             IN  Flush(v, toFixed1(v) \o " milliseconds", t)
        ELSE /\ _frame' = frame
             /\ last' = "throw"
             /\ UNCHANGED <<stats, _value, _text, _startTime>>

\* Variant of _update: the window is reset on the way out of the default
\* case too (a reset() in a finally block).
_update_resetOnThrow(t) ==
    LET frame == _frame + 1
        elapsedMs == t - _startTime
    IN  IF elapsedMs < updateRateMs
        THEN /\ _frame' = frame
             /\ last' = "skip"
             /\ UNCHANGED <<stats, _value, _text, _startTime>>
        ELSE IF statsType = Fps
        THEN LET v == FpsValue(frame, elapsedMs)
             IN  Flush(v, "FPS: " \o toFixed1(v), t)
        ELSE IF statsType = Milliseconds
        THEN LET v == MsValue(elapsedMs, frame)
             IN  Flush(v, toFixed1(v) \o " milliseconds", t)
        ELSE /\ ResetAt(t)
             /\ last' = "throw"
             /\ UNCHANGED <<stats, _value, _text>>

_update(t) ==
    LET frame == _frame + 1
        elapsedMs == t - _startTime
    IN  IF elapsedMs < updateRateMs
        THEN /\ _frame' = frame
             /\ last' = "skip"
             /\ UNCHANGED <<stats, _value, _text, _startTime>>
        ELSE IF statsType = Fps
        THEN LET v == FpsValue(frame, elapsedMs)
             IN  Flush(v, "FPS: " \o toFixed1(v), t)
        ELSE IF statsType = Milliseconds
        THEN LET v == MsValue(elapsedMs, frame)
             IN  Flush(v, toFixed1(v) \o " milliseconds", t)
        ELSE /\ _frame' = frame
             /\ last' = "throw"
             /\ UNCHANGED <<stats, _value, _text, _startTime>>

(***************************************************************************)
(* The host.                                                               *)
(***************************************************************************)
\* The scene has rendered a frame and notifies onPostRender.
PostRender ==
    /\ _frame < MaxFrame
    /\ stats.n < MaxSamples
    /\ IF onPostRender
       THEN _update(now)
       ELSE /\ last' = "frame"
            /\ UNCHANGED <<stats, _value, _text, _startTime, _frame>>
    /\ UNCHANGED <<statsType, updateRateMs, onPostRender, active, now>>

\* Time passes.
Elapse ==
    /\ \E d \in 1 .. MaxTime : now + d <= MaxTime /\ now' = now + d
    /\ UNCHANGED <<statsType, updateRateMs, stats, _value, _text, _startTime,
                   _frame, onPostRender, active, last>>

\* The properties are plain public fields: the editor or a script sets them.
SetStatsType ==
    /\ \E s \in StatsTypes : s # statsType /\ statsType' = s
    /\ last' = "set"
    /\ UNCHANGED <<updateRateMs, stats, _value, _text, _startTime, _frame,
                   onPostRender, active, now>>

SetUpdateRateMs ==
    /\ \E r \in Rates : r # updateRateMs /\ updateRateMs' = r
    /\ last' = "set"
    /\ UNCHANGED <<statsType, stats, _value, _text, _startTime, _frame,
                   onPostRender, active, now>>

Next ==
    \/ onActivate
    \/ onDeactivate
    \/ reset
    \/ PostRender
    \/ Elapse
    \/ SetStatsType
    \/ SetUpdateRateMs

Spec == Init /\ [][Next]_vars

(***************************************************************************)
(* Two host scenarios: the component is activated once and a frame is      *)
(* rendered every so often; the listener runs at the end of each frame.    *)
(***************************************************************************)
\* A frame that takes p clock units, then the post-render notification.
Frame(p) ==
    /\ onPostRender
    /\ now' = now + p
    /\ _update(now + p)
    /\ UNCHANGED <<statsType, updateRateMs, onPostRender, active>>

\* updateRateMs = 1000, frames of 16, 17 or 20 ms.
FramePeriods == {16 * UnitsPerMs, 17 * UnitsPerMs, 20 * UnitsPerMs}

InitFrames ==
    /\ statsType \in {Fps, Milliseconds}
    /\ updateRateMs = MsPerSecond * UnitsPerMs
    /\ stats = [n |-> 0, sample |-> Zero, at |-> 0]
    /\ _value = Zero
    /\ _text = ""
    /\ _startTime = 0
    /\ _frame = 0
    /\ onPostRender = FALSE
    /\ active = FALSE
    /\ now = 0
    /\ last = "new"

RenderFrame ==
    \E p \in FramePeriods : now + p <= FramesHorizon /\ Frame(p)

NextFrames ==
    \/ onActivate
    \/ RenderFrame

SpecFrames == InitFrames /\ [][NextFrames]_vars

\* updateRateMs = 500 (the default), one frame every 16.6 ms.
ScenarioRate == DefaultUpdateRateMs * UnitsPerMs
ScenarioPeriod == (166 * UnitsPerMs) \div 10

InitScenario ==
    /\ statsType \in {Fps, Milliseconds}
    /\ updateRateMs = ScenarioRate
    /\ stats = [n |-> 0, sample |-> Zero, at |-> 0]
    /\ _value = Zero
    /\ _text = ""
    /\ _startTime = 0
    /\ _frame = 0
    /\ onPostRender = FALSE
    /\ active = FALSE
    /\ now = 0
    /\ last = "new"

RenderScenarioFrame ==
    now + ScenarioPeriod <= ScenarioHorizon /\ Frame(ScenarioPeriod)

NextScenario ==
    \/ onActivate
    \/ RenderScenarioFrame

SpecScenario == InitScenario /\ [][NextScenario]_vars

\* The host keeps rendering: updateRateMs = 500, frames of 16.6 or 20 ms,
\* and a frame is rendered whenever one is possible.
MaxFramePeriod == 20 * UnitsPerMs
LivePeriods == {ScenarioPeriod, MaxFramePeriod}

RenderLiveFrame ==
    \E p \in LivePeriods : now + p <= ScenarioHorizon /\ Frame(p)

NextLive ==
    \/ onActivate
    \/ RenderLiveFrame

SpecLive ==
    /\ InitScenario
    /\ [][NextLive]_vars
    /\ WF_vars(onActivate)
    /\ WF_vars(RenderLiveFrame)

\* A misconfigured component: statsType is outside the enum when the
\* component is activated and is corrected later; updateRateMs is positive
\* and a frame takes no or one clock unit.
InitRetry ==
    /\ statsType = Milliseconds + 1
    /\ updateRateMs \in 1 .. MaxRate
    /\ stats = [n |-> 0, sample |-> Zero, at |-> 0]
    /\ _value = Zero
    /\ _text = ""
    /\ _startTime = 0
    /\ _frame = 0
    /\ onPostRender = FALSE
    /\ active = FALSE
    /\ now = 0
    /\ last = "new"

RenderRetryFrame ==
    /\ _frame < RetryFrames
    /\ \E p \in 0 .. 1 : now + p <= RetryHorizon /\ Frame(p)

FixStatsType ==
    /\ statsType \notin {Fps, Milliseconds}
    /\ \E s \in {Fps, Milliseconds} : statsType' = s
    /\ last' = "set"
    /\ UNCHANGED <<updateRateMs, stats, _value, _text, _startTime, _frame,
                   onPostRender, active, now>>

NextRetry ==
    \/ onActivate
    \/ RenderRetryFrame
    \/ FixStatsType

SpecRetry == InitRetry /\ [][NextRetry]_vars

(***************************************************************************)
(* Properties.  Under Spec the clock moves only in Elapse steps, so a step *)
(* that leaves the clock alone and ends with one of the outcomes of        *)
(* _update is a call of _update; under the two scenarios every frame is.   *)
(***************************************************************************)
TickOutcomes == {"skip", "flush", "throw"}
Tick == now' = now /\ last' \in TickOutcomes
ValidMode == statsType \in {Fps, Milliseconds}
Elapsed == now - _startTime

\* C1: a tick whose elapsed time is below updateRateMs does not flush: it
\* adds exactly 1 to _frame and leaves _startTime, _value, _text and the
\* graph alone; a flush happens only on a tick with elapsed >= updateRateMs.
C1_NoFlushBeforeInterval ==
    [][Tick =>
        /\ Elapsed < updateRateMs =>
              /\ last' = "skip"
              /\ _frame' = _frame + 1
              /\ UNCHANGED <<_startTime, _value, _text, stats>>
        /\ last' = "flush" => Elapsed >= updateRateMs]_vars

\* a tick that did not flush, in the window after a flush, with the flushed
\* value still in place
C1_Witness ==
    /\ last = "skip"
    /\ _frame = 2
    /\ stats.n = 1
    /\ _text # ""
    /\ now - _startTime < updateRateMs

\* C2: a tick with a valid mode and elapsed >= updateRateMs performs exactly
\* one flush; afterwards _frame is 0 and _startTime is the current time.
C2_FlushResets ==
    [][(Tick /\ ValidMode /\ Elapsed >= updateRateMs) =>
        /\ last' = "flush"
        /\ stats'.n = stats.n + 1
        /\ _frame' = 0
        /\ _startTime' = now']_vars

\* the second flush, after a window of several frames that began later than
\* time 0
C2_Witness ==
    /\ last = "flush"
    /\ stats.n = 2
    /\ _frame = 0
    /\ _startTime = now
    /\ now > 0

\* C3: a tick that reaches the flush point with a statsType that is neither
\* Fps nor Milliseconds throws; _value, _text and the graph keep their values.
C3_UnknownModeThrows ==
    [][(Tick /\ ~ValidMode /\ Elapsed >= updateRateMs) =>
        /\ last' = "throw"
        /\ UNCHANGED <<_value, _text, stats>>]_vars

\* a throwing tick after an earlier flush, whose value and text are kept
C3_Witness ==
    /\ last = "throw"
    /\ statsType \notin {Fps, Milliseconds}
    /\ stats.n = 1
    /\ _text # ""
    /\ _value # Zero

\* C4: a flush in Milliseconds mode never divides by a zero frame count: the
\* value it stores and sends is a finite number, neither Infinity nor NaN.
C4_IntervalFlushFinite ==
    [][(Tick /\ statsType = Milliseconds /\ last' = "flush") =>
        /\ IsFinite(_value')
        /\ IsFinite(stats'.sample)
        /\ _value'.n * (_frame + 1) * UnitsPerMs = _value'.d * Elapsed]_vars

\* a Milliseconds flush by the first tick of a window in which no time has
\* passed: 0 ms over 1 frame
C4_Witness ==
    /\ last = "flush"
    /\ statsType = Milliseconds
    /\ stats.n = 2
    /\ _value = Zero
    /\ _text = "0.0 milliseconds"

\* C5: in Fps mode a flush stores _frame divided by the elapsed seconds,
\* where _frame has counted every tick since the last reset, the flushing
\* one included; 60 frames in 1000 ms give 60 and the text "FPS: 60.0".
C5_RateValue ==
    [][/\ last' = "onActivate" => _frame' = 0
       /\ (last' \in TickOutcomes /\ statsType = Fps) =>
            LET count == _frame + 1
                elapsed == now' - _startTime
            IN  /\ last' = "skip" => _frame' = count
                /\ last' = "flush" =>
                      /\ IsFinite(_value')
                      /\ _value'.n * elapsed
                            = _value'.d * count * MsPerSecond * UnitsPerMs
                      /\ stats'.sample = _value'
                /\ (count = 60 /\ elapsed = 1000 * UnitsPerMs) =>
                      /\ last' = "flush"
                      /\ _value' = [k |-> "fin", n |-> 60, d |-> 1]
                      /\ _text' = "FPS: 60.0"]_vars

\* the flush of a window of 60 frames that took exactly 1000 ms
C5_Witness ==
    /\ last = "flush"
    /\ statsType = Fps
    /\ stats.n = 1
    /\ now = 1000 * UnitsPerMs
    /\ _value = [k |-> "fin", n |-> 60, d |-> 1]
    /\ _text = "FPS: 60.0"

\* C6: in Milliseconds mode a flush stores the elapsed milliseconds divided
\* by _frame, where _frame has counted every tick since the last reset, the
\* flushing one included; 50 frames in 1000 ms give 20 and the text
\* "20.0 milliseconds".
C6_IntervalValue ==
    [][/\ last' = "onActivate" => _frame' = 0
       /\ (last' \in TickOutcomes /\ statsType = Milliseconds) =>
            LET count == _frame + 1
                elapsed == now' - _startTime
            IN  /\ last' = "skip" => _frame' = count
                /\ last' = "flush" =>
                      /\ IsFinite(_value')
                      /\ _value'.n * count * UnitsPerMs = _value'.d * elapsed
                      /\ stats'.sample = _value'
                /\ (count = 50 /\ elapsed = 1000 * UnitsPerMs) =>
                      /\ last' = "flush"
                      /\ _value' = [k |-> "fin", n |-> 20, d |-> 1]
                      /\ _text' = "20.0 milliseconds"]_vars

\* the flush of a window of 50 frames that took exactly 1000 ms
C6_Witness ==
    /\ last = "flush"
    /\ statsType = Milliseconds
    /\ stats.n = 1
    /\ now = 1000 * UnitsPerMs
    /\ _value = [k |-> "fin", n |-> 20, d |-> 1]
    /\ _text = "20.0 milliseconds"

\* C7 (as claimed): with updateRateMs <= 0 every tick flushes, and the value
\* it stores and sends is never Infinity or NaN, also when elapsed = 0.
C7_NonPositiveRateFinite ==
    [][(Tick /\ updateRateMs <= 0) =>
        /\ last' # "skip"
        /\ (last' = "flush" => IsFinite(_value') /\ IsFinite(stats'.sample))]_vars

\* C8: reset() sets _frame to 0 and _startTime to the current time and
\* touches nothing else; a second reset() with no tick in between leaves
\* _frame at 0 and does not move _startTime backwards.
C8_ResetOnlyRearms ==
    [][(now' = now /\ last' = "reset") =>
        /\ _frame' = 0
        /\ _startTime' = now
        /\ UNCHANGED <<_value, _text, statsType, updateRateMs, stats,
                       onPostRender, active>>
        /\ last = "reset" => (_frame = 0 /\ _startTime' >= _startTime)]_vars

\* a reset() later than time 0, after a flush whose value and text remain
C8_Witness ==
    /\ last = "reset"
    /\ _frame = 0
    /\ _startTime = now
    /\ now > 0
    /\ stats.n = 1
    /\ _text # ""

\* C9: with updateRateMs = 500 and a tick every 16.6 ms from the activation
\* at time 0, the flushes are exactly the ticks K, 2K, 3K, ... where K is the
\* first k with k * 16.6 ms >= 500 ms, and K >= 30: no flush before, one
\* flush in the first window, _frame = 0 right after it, and the next ticks
\* count 1, 2, ... in a window that starts at the flush.
FirstFlushTick ==
    CHOOSE k \in 1 .. ScenarioRate :
        /\ k * ScenarioPeriod >= ScenarioRate
        /\ (k - 1) * ScenarioPeriod < ScenarioRate

C9_OneFlushPerWindow ==
    active =>
        LET tick == now \div ScenarioPeriod
        IN  /\ now = tick * ScenarioPeriod
            /\ FirstFlushTick >= 30
            /\ stats.n = tick \div FirstFlushTick
            /\ _frame = tick % FirstFlushTick
            /\ _startTime = stats.n * FirstFlushTick * ScenarioPeriod
            /\ (last = "flush") = (tick > 0 /\ _frame = 0)
            /\ (last = "skip") = (_frame > 0)

\* the tick after the first flush: it counts 1 in the new window
C9_Witness ==
    /\ last = "skip"
    /\ stats.n = 1
    /\ _frame = 1
    /\ now = (FirstFlushTick + 1) * ScenarioPeriod
    /\ _startTime = FirstFlushTick * ScenarioPeriod

\* C10: while the component is not active a rendered frame runs no tick
\* (_frame, _startTime, _value, _text and the graph stay as they are); while
\* it is active every rendered frame runs exactly one tick.
FrameOutcomes == TickOutcomes \cup {"frame"}

C10_TicksOnlyWhileActive ==
    [][(now' = now /\ last' \in FrameOutcomes) =>
        IF active
        THEN /\ last' \in TickOutcomes
             /\ \/ _frame' = _frame + 1 /\ stats' = stats
                \/ last' = "flush" /\ _frame' = 0 /\ stats'.n = stats.n + 1
        ELSE /\ last' = "frame"
             /\ UNCHANGED <<_frame, _startTime, _value, _text, stats>>]_vars

\* a frame rendered after onDeactivate(), in the middle of a window
C10_Witness ==
    /\ last = "frame"
    /\ ~active
    /\ _frame = 2
    /\ stats.n = 1

\* C11: until the first successful flush _value is 0 and _text is empty,
\* whatever activations, deactivations, resets, property changes, ticks
\* below the interval and throwing ticks have happened.
C11_InitialValueUntilFlush ==
    stats.n = 0 => (_value = Zero /\ _text = "")

\* no flush yet, after a tick below the interval and a throwing tick
C11_Witness ==
    /\ stats.n = 0
    /\ last = "throw"
    /\ _frame >= 2
    /\ _value = Zero
    /\ _text = ""

\* C12: a flush comes at least updateRateMs (as set at that flush) after the
\* flush before it; a reset() or onActivate() in between only moves the
\* start of the window forward, never back and never before the last flush.
C12_WindowLowerBound ==
    [][/\ (Tick /\ last' = "flush" /\ stats.n > 0) =>
              now' - stats.at >= updateRateMs
       /\ (now' = now /\ last' \in {"reset", "onActivate"}) =>
              (_startTime' >= _startTime /\ _startTime' >= stats.at)]_vars

\* the second flush, with a positive interval, two intervals or more after
\* time 0
C12_Witness ==
    /\ last = "flush"
    /\ stats.n = 2
    /\ stats.at = now
    /\ updateRateMs > 0
    /\ now >= 2 * updateRateMs

\* C13: _startTime never decreases and never exceeds the current time, and
\* _frame is never negative.
C13_ClockOrder ==
    /\ [](_startTime <= now /\ _frame >= 0)
    /\ [][_startTime' >= _startTime]_vars

\* in the middle of a window that started after time 0
C13_Witness ==
    /\ _startTime > 0
    /\ _startTime < now
    /\ _frame > 0
    /\ last = "skip"

WindowFits == _startTime + updateRateMs + MaxFramePeriod <= ScenarioHorizon

C15_FlushRecurs ==
    /\ (stats.n = 0 /\ WindowFits) ~> (stats.n = 1)
    /\ (stats.n = 1 /\ WindowFits) ~> (stats.n = 2)

\* the second flush of an active component
C15_Witness ==
    /\ active
    /\ last = "flush"
    /\ stats.n = 2
    /\ _frame = 0

\* C16: a tick that throws on an unknown statsType leaves _startTime alone
\* and keeps its increment of _frame; so when statsType is then set to a
\* valid mode, the next tick flushes, and the value it computes divides by
\* all the ticks since the last reset, the throwing ones included.
C16_FailedTickKeepsWindow ==
    [][/\ last' = "throw" =>
              /\ _startTime' = _startTime
              /\ _frame' = _frame + 1
              /\ UNCHANGED <<_value, _text, stats>>
       /\ (last = "throw" /\ last' = "set") =>
              /\ statsType' \in {Fps, Milliseconds}
              /\ UNCHANGED <<_startTime, _frame, updateRateMs, now>>
              /\ now - _startTime >= updateRateMs
       /\ (last = "set" /\ last' \in TickOutcomes
              /\ now - _startTime >= updateRateMs) =>
              /\ last' = "flush"
              /\ stats'.n = stats.n + 1
              /\ IsFinite(_value')
              /\ statsType = Fps =>
                    _value'.n * (now' - _startTime)
                        = _value'.d * (_frame + 1) * MsPerSecond * UnitsPerMs
              /\ statsType = Milliseconds =>
                    _value'.n * (_frame + 1) * UnitsPerMs
                        = _value'.d * (now' - _startTime)]_vars

\* updateRateMs = 1 and the first flush at time 3: the ticks at times 1 and
\* 2 were at the flush point and threw, the mode was corrected, and the
\* flush divides 3 units by 3 frames
C16_Witness ==
    /\ last = "flush"
    /\ stats.n = 1
    /\ statsType = Milliseconds
    /\ updateRateMs = 1
    /\ now = 3
    /\ _value = Quot(3, 3 * UnitsPerMs)

\* C17: with updateRateMs > 0 a flush happens with elapsed > 0 and at least
\* one frame counted, so neither division has a zero divisor and the value
\* stored and sent is finite and strictly positive.
C17_PositiveRateFlush ==
    [][(Tick /\ last' = "flush" /\ updateRateMs > 0) =>
        /\ Elapsed > 0
        /\ IsFinite(_value')
        /\ _value'.n > 0
        /\ stats'.sample = _value']_vars

\* a flush with a positive interval
C17_Witness ==
    /\ last = "flush"
    /\ updateRateMs > 0
    /\ stats.n = 1
    /\ IsFinite(_value)
    /\ _value.n > 0

\* C18: onActivate() starts a new window at the current time with no frame
\* counted; ticks that do not flush add 1 and keep the start; a flush
\* divides the frames counted since by the time since.  So the first flush
\* after a reactivation measures only what came after it.
C18_ReactivationStartsFresh ==
    [][/\ (now' = now /\ last' = "onActivate") =>
              (_frame' = 0 /\ _startTime' = now)
       /\ (Tick /\ last' # "flush") =>
              (_frame' = _frame + 1 /\ _startTime' = _startTime)
       /\ (Tick /\ last' = "flush" /\ Elapsed > 0) =>
              /\ IsFinite(_value')
              /\ statsType = Fps =>
                    _value'.n * Elapsed
                        = _value'.d * (_frame + 1) * MsPerSecond * UnitsPerMs
              /\ statsType = Milliseconds =>
                    _value'.n * (_frame + 1) * UnitsPerMs = _value'.d * Elapsed
       /\ (now' = now /\ last' = "onDeactivate") =>
              UNCHANGED <<_frame, _startTime, _value, _text, stats>>]_vars

\* a reactivation: the component has flushed before (so it was active), and
\* the new window starts now, later than the last flush, with no frame
C18_Witness ==
    /\ last = "onActivate"
    /\ active
    /\ stats.n = 1
    /\ _frame = 0
    /\ _startTime = now
    /\ now > stats.at

====
